---- MODULE Spec2Model ----
(***************************************************************************)
(* The asynchronous background work bridge of src/napi-inl.h               *)
(* (Napi::AsyncWorker, with the Reference holders, HandleScope and Error   *)
(* conversion it uses), as a state machine.                                *)
(*                                                                         *)
(* Threads: the caller and the completion dispatch run on the thread that  *)
(* owns the host execution context; OnExecute runs on the host's worker    *)
(* threads, one per running unit.  The host runtime is a black box: its    *)
(* scheduling contract is modelled from the interface description          *)
(* (HostMayExecute, HostMayComplete, HostCancel); every status it returns  *)
(* to the code is an input of the action that makes the call.              *)
(*                                                                         *)
(* Specifications: Spec is the bridge with units that override OnOK and    *)
(* OnError; SpecDefault is the bridge with the default handlers;           *)
(* SpecCaller is the caller's side alone, with the move operations and     *)
(* empty receivers; SpecRef is the Reference holders with the host's       *)
(* collector; SpecError is the status-to-failure translator Error::New(env) *)
(* on the host's last error information; SpecLive is Spec under the host's *)
(* scheduling guarantee (weak fairness of the host's steps).               *)
(***************************************************************************)
EXTENDS Integers, Sequences, FiniteSets, TLC

\* ------------------------------------------------------------------ bounds
MaxMsgLen == 2      \* longest error text (std::string) that is enumerated
MaxCount == 2       \* largest count a host reference is raised to

\* The AsyncWorker instances the caller may construct.  The units share
\* nothing but the main thread and the process, and every property below
\* speaks of one unit or of a pair of units, so a pair is modelled.
Units == {1, 2}

\* The Reference<T> holders the caller may create on their own (outside a
\* unit); they all refer to one value of the host.
Holders == {1, 2}

\* The characters of a message other than the terminating NUL.
Chars == {1}
NUL == 0

\* std::string values: character sequences of bounded length.
Msgs == UNION {[1..n -> Chars] : n \in 0..MaxMsgLen}

\* The null handle.  A handle that is not null is the id of the unit whose
\* constructor obtained it from the host (its napi_async_work, its
\* napi_ref of the receiver, its napi_ref of the callback).
nullptr == 0

\* napi_status values the code distinguishes.
napi_ok == "napi_ok"
napi_cancelled == "napi_cancelled"
napi_generic_failure == "napi_generic_failure"
Statuses == {napi_ok, napi_generic_failure}

\* napi_status values the host leaves in its last error information after a
\* call that did not return napi_ok.
napi_invalid_arg == "napi_invalid_arg"
napi_object_expected == "napi_object_expected"
napi_string_expected == "napi_string_expected"
napi_function_expected == "napi_function_expected"
napi_number_expected == "napi_number_expected"
napi_boolean_expected == "napi_boolean_expected"
napi_pending_exception == "napi_pending_exception"
ErrorCodes == {napi_invalid_arg, napi_object_expected, napi_string_expected,
               napi_function_expected, napi_number_expected,
               napi_boolean_expected, napi_generic_failure,
               napi_pending_exception}

\* ------------------------------------------------------- string conversions
\* std::string::c_str(): the characters followed by the terminating NUL.
c_str(s) == Append(s, NUL)

\* Index of the first NUL of a buffer (every buffer used here holds one).
RECURSIVE FirstNul(_, _)
FirstNul(buf, i) ==
    IF i > Len(buf) THEN i
    ELSE IF buf[i] = NUL THEN i
    ELSE FirstNul(buf, i + 1)

\* std::string(const char*): the characters before the first NUL
\* (the implicit conversion of e.what() at the call of SetError).
StdString(buf) == SubSeq(buf, 1, FirstNul(buf, 1) - 1)

\* napi_create_string_utf8(env, str, length, &result): length characters.
napi_create_string_utf8(buf, length) == SubSeq(buf, 1, length)

\* A variant of ErrorNewMessage that passes one character too few.
ErrorNewMessage_OffByOne(message) ==
    napi_create_string_utf8(c_str(message), Len(message) - 1)

\* Error::New(napi_env, const std::string&): the message of the error value
\* created from message.c_str() and message.size().
ErrorNewMessage(message) == napi_create_string_utf8(c_str(message), Len(message))

\* A variant of NoErrorCaptured with the test inverted.
NoErrorCaptured_Inverted(error) == Len(error) # 0

\* self->_error.size() == 0, the test of OnWorkComplete.
NoErrorCaptured(error) == Len(error) = 0

VARIABLES
    life,         \* unit -> "unborn" | "failed" | "live" | "moved" | "destroyed"
    _work,        \* unit -> nullptr | id: the unit's napi_async_work
    _receiver,    \* unit -> nullptr | id: _ref of the receiver holder
    _callback,    \* unit -> nullptr | id: _ref of the callback holder
    _error,       \* unit -> the captured error text
    hostWork,     \* id -> the host's state of that work-queue entry
    hostRefs,     \* id -> the references with that id the host still holds
    pcExecute,    \* unit -> position of the worker thread in OnExecute
    executed,     \* unit -> what Execute did: [how, what, set]
    nExecute,     \* unit -> invocations of Execute
    nSetError,    \* unit -> assignments to _error made by SetError
    pcComplete,   \* unit -> position of the main thread in OnWorkComplete
    status,       \* unit -> the status the host passed to OnWorkComplete
    caught,       \* unit -> the Napi::Error caught by OnWorkComplete
    nOnOK,        \* unit -> invocations of OnOK
    nOnError,     \* unit -> invocations of OnError
    errorArg,     \* unit -> arguments OnError was invoked with (messages)
    callbacks,    \* unit -> the napi_make_callback calls of the default
                  \*         OnOK and OnError: [recv, args]
    jsException,  \* unit -> a script exception was thrown by napi_throw
    scopes,       \* unit -> the handle scopes its completion dispatch has
                  \*         opened and closed, in order: [op, scope]
    lateCancel,   \* unit -> Cancel was called after its Execute had started
    scheduled,    \* unit -> a call of Queue on the unit has returned normally
    holder,       \* holder -> [life, _ref, _suppressDestruct, last]
    hostRef,      \* id -> the host's reference: [state, count, kind, adjust,
                  \*       deletes]
    collected,    \* the host has collected the value the holders refer to
    lastError,    \* the host's napi_extended_error_info: [error_code,
                  \*     has_message, error_message]
    pendingException, \* the script exception pending in the host, or NoValue
    errorNew,     \* the last call of Error::New(env): what it read, the
                  \*     statuses of its host calls, and what it returned
    call,         \* the caller's operation that has just returned
    terminated    \* an exception left a host callback: the process is gone

vars == <<life, _work, _receiver, _callback, _error, hostWork, hostRefs,
          pcExecute, executed, nExecute, nSetError, pcComplete, status, caught, nOnOK, nOnError,
          errorArg, callbacks, jsException, scopes, lateCancel, scheduled,
          holder,
          hostRef, collected, lastError, pendingException, errorNew,
          call, terminated>>

unitVars == <<life, _work, _receiver, _callback, _error>>
hostVars == <<hostWork, hostRefs>>
executeVars == <<pcExecute, executed, nExecute, nSetError>>
completeVars == <<pcComplete, status, caught, nOnOK, nOnError, errorArg,
                  callbacks, jsException, scopes>>
refVars == <<holder, hostRef, collected>>
errorVars == <<lastError, pendingException, errorNew>>
workerVars == <<unitVars, hostVars, executeVars, completeVars, lateCancel,
                scheduled>>

NoCall == [op |-> "none", unit |-> 0, status |-> napi_ok, raised |-> FALSE]
NotExecuted == [how |-> "none", what |-> <<>>, set |-> <<>>]
NoHolder == [life |-> "unborn", _ref |-> nullptr,
             _suppressDestruct |-> "indeterminate", last |-> nullptr]
NoValue == [type |-> "nullptr", message |-> <<>>]
NoErrorInfo == [error_code |-> napi_ok, has_message |-> FALSE,
                error_message |-> <<>>]
NoErrorNew == [called |-> FALSE, info |-> NoErrorInfo, pending |-> NoValue,
               sts |-> <<>>, outcome |-> "none", error |-> NoValue,
               cleared |-> FALSE]
NoHostRef == [state |-> "none", count |-> 0, kind |-> "none", adjust |-> 0,
              deletes |-> 0]

Init ==
    /\ life = [u \in Units |-> "unborn"]
    /\ _work = [u \in Units |-> nullptr]
    /\ _receiver = [u \in Units |-> nullptr]
    /\ _callback = [u \in Units |-> nullptr]
    /\ _error = [u \in Units |-> <<>>]
    /\ hostWork = [u \in Units |-> "none"]
    /\ hostRefs = [u \in Units |-> {}]
    /\ pcExecute = [u \in Units |-> "idle"]
    /\ executed = [u \in Units |-> NotExecuted]
    /\ nExecute = [u \in Units |-> 0]
    /\ nSetError = [u \in Units |-> 0]
    /\ pcComplete = [u \in Units |-> "idle"]
    /\ status = [u \in Units |-> "none"]
    /\ caught = [u \in Units |-> "none"]
    /\ nOnOK = [u \in Units |-> 0]
    /\ nOnError = [u \in Units |-> 0]
    /\ errorArg = [u \in Units |-> <<>>]
    /\ callbacks = [u \in Units |-> <<>>]
    /\ jsException = [u \in Units |-> FALSE]
    /\ scopes = [u \in Units |-> <<>>]
    /\ lateCancel = [u \in Units |-> FALSE]
    /\ scheduled = [u \in Units |-> FALSE]
    /\ holder = [h \in Holders |-> NoHolder]
    /\ hostRef = [h \in Holders |-> NoHostRef]
    /\ collected = FALSE
    /\ lastError = NoErrorInfo
    /\ pendingException = NoValue
    /\ errorNew = NoErrorNew
    /\ call = NoCall
    /\ terminated = FALSE

\* The main thread is inside the completion dispatch of some unit.
MainBusy == \E u \in Units : pcComplete[u] \in {"try", "catch", "delete"}

\* The caller's code runs on the main thread, between host callbacks.
CallerMayRun == ~terminated /\ ~MainBusy

\* ------------------------------------------------------------ small pieces
\* A variant of ScopeOpened that opens no scope.
ScopeOpened_Skipped(log, by) == log

\* HandleScope::HandleScope(env) and EscapableHandleScope(env), when the host
\* call succeeds: the scope declared in function `by` is opened.
ScopeOpened(log, by) == Append(log, [op |-> "open", scope |-> by])

\* A variant of ScopeClosed that leaves the scope open.
ScopeClosed_Skipped(log, by) == log

\* HandleScope::~HandleScope() and ~EscapableHandleScope(): the scope declared
\* in function `by` is closed.
ScopeClosed(log, by) == Append(log, [op |-> "close", scope |-> by])

\* The scopes still open after the operations of log, innermost last; a
\* close of a scope that is not the innermost open one gives <<"mismatch">>.
RECURSIVE Replay(_, _)
Replay(log, stack) ==
    IF log = <<>> THEN stack
    ELSE IF Head(log).op = "open"
         THEN Replay(Tail(log), Append(stack, Head(log).scope))
         ELSE IF stack # <<>> /\ stack[Len(stack)] = Head(log).scope
              THEN Replay(Tail(log), SubSeq(stack, 1, Len(stack) - 1))
              ELSE <<"mismatch">>

OpenScopes(log) == Replay(log, <<>>)

\* `if (status != napi_ok) throw Error::New(_env);`
Throws(st) == st # napi_ok

\* Reference<T>::New(value, initialRefcount): an empty value gives an empty
\* holder without a host call; otherwise napi_create_reference decides.
ReferenceNew(value, st) ==
    IF value = "empty" THEN "null"
    ELSE IF Throws(st) THEN "throw"
    ELSE "ref"

\* The _ref of the holder that Reference<T>::New returned to unit u.
Held(r, u) == IF r = "ref" THEN u ELSE nullptr

\* Reference<T>::~Reference() on the host's references hr: a held handle is
\* deleted unless _suppressDestruct is set.  The holders of a unit come from
\* Reference(napi_env, napi_ref) and the move constructor, neither of which
\* initialises _suppressDestruct: the flag read here is indeterminate, so
\* `suppress` is an input of every destruction.
ReferenceDestruct(hr, which, ref, suppress) ==
    IF ref # nullptr /\ ~suppress
    THEN [hr EXCEPT ![ref] = @ \ {which}]
    ELSE hr

\* A variant of SetError that keeps the text in one place shared by all units.
SetError_Shared(u, error) == [v \in Units |-> error]

\* AsyncWorker::SetError(error): _error = error, on the unit it is called on.
SetError(u, error) == [_error EXCEPT ![u] = error]

\* ------------------------------------------------------- the host's contract
\* The host runs the off-thread entry point of an entry that was queued and
\* neither cancelled nor started.
HostMayExecute(u) == hostWork[u] = "queued"

\* A variant of HostMayComplete that also completes an entry still running.
HostMayComplete_Early(u) == hostWork[u] \in {"running", "executed", "cancelled"}

\* The host delivers the completion of an entry once, after its off-thread
\* entry point has returned or after it was cancelled before starting.
HostMayComplete(u) == hostWork[u] \in {"executed", "cancelled"}

\* napi_cancel_async_work: an entry still waiting in the queue is cancelled;
\* one that was never queued or was already cancelled cannot be; for one that
\* has started the request has no effect, whatever status is reported.
HostCancelStatuses(u) ==
    CASE hostWork[u] = "queued" -> {napi_ok}
      [] hostWork[u] \in {"running", "executed"} -> Statuses
      [] OTHER -> {napi_generic_failure}

HostCancel(u, st) ==
    IF hostWork[u] = "queued" /\ st = napi_ok
    THEN [hostWork EXCEPT ![u] = "cancelled"]
    ELSE hostWork

\* The status of the completion: cancelled, or completed.
HostCompletionStatus(u) ==
    IF hostWork[u] = "cancelled" THEN napi_cancelled ELSE napi_ok

\* ------------------------------------------------------ the caller's calls
\* A variant of CreatedWork in which creating an entry also schedules it.
CreatedWork_Queued == "queued"

\* The state of an entry that napi_create_async_work has returned: it is
\* registered with the host, and not scheduled.
CreatedWork == "created"

Returned(op, u, st) ==
    [op |-> op, unit |-> u, status |-> st, raised |-> Throws(st)]

\* AsyncWorker::AsyncWorker(receiver, callback); the callback-only form
\* delegates to it with a fresh object.  rSt, cSt and wSt are the statuses of
\* the two napi_create_reference calls and of napi_create_async_work; supR
\* and supC are the indeterminate flags read if a member is destroyed by a
\* failing constructor.  Units are constructed in the order of their ids.
Construct(u, receiver, callback, rSt, cSt, wSt, supR, supC) ==
    /\ CallerMayRun
    /\ life[u] = "unborn"
    /\ \A v \in Units : v < u => life[v] # "unborn"
    /\ LET r == ReferenceNew(receiver, rSt)
           c == ReferenceNew(callback, cSt)
           made == [hostRefs EXCEPT ![u] =
                       (IF r = "ref" THEN {"receiver"} ELSE {})
                           \cup (IF c = "ref" THEN {"callback"} ELSE {})]
       IN  IF r = "throw"
           THEN /\ life' = [life EXCEPT ![u] = "failed"]
                /\ call' = Returned("AsyncWorker", u, rSt)
                /\ UNCHANGED <<_work, _receiver, _callback, hostWork, hostRefs>>
           ELSE IF c = "throw"
           THEN /\ life' = [life EXCEPT ![u] = "failed"]
                /\ call' = Returned("AsyncWorker", u, cSt)
                /\ hostRefs' =
                       ReferenceDestruct(made, "receiver", Held(r, u), supR)
                /\ UNCHANGED <<_work, _receiver, _callback, hostWork>>
           ELSE IF Throws(wSt)
           THEN /\ life' = [life EXCEPT ![u] = "failed"]
                /\ call' = Returned("AsyncWorker", u, wSt)
                /\ hostRefs' =
                       ReferenceDestruct(
                           ReferenceDestruct(made, "callback", Held(c, u), supC),
                           "receiver", Held(r, u), supR)
                /\ UNCHANGED <<_work, _receiver, _callback, hostWork>>
           ELSE /\ life' = [life EXCEPT ![u] = "live"]
                /\ _receiver' = [_receiver EXCEPT ![u] = Held(r, u)]
                /\ _callback' = [_callback EXCEPT ![u] = Held(c, u)]
                /\ _work' = [_work EXCEPT ![u] = u]
                /\ hostWork' = [hostWork EXCEPT ![u] = CreatedWork]
                /\ hostRefs' = made
                /\ call' = Returned("AsyncWorker", u, wSt)
    /\ UNCHANGED <<_error, lateCancel, scheduled, terminated>>
    /\ UNCHANGED executeVars
    /\ UNCHANGED refVars
    /\ UNCHANGED errorVars
    /\ UNCHANGED completeVars

\* A variant of Queue that does not look at the status of the host call.
Queue_Unchecked(u, st) ==
    /\ CallerMayRun
    /\ life[u] = "live"
    /\ _work[u] # nullptr
    /\ hostWork[_work[u]] = "created"
    /\ hostWork' = [hostWork EXCEPT ![_work[u]] =
           IF st = napi_ok THEN "queued" ELSE @]
    /\ scheduled' = [scheduled EXCEPT ![u] = @ \/ st = napi_ok]
    /\ call' = [op |-> "Queue", unit |-> u, status |-> st, raised |-> FALSE]
    /\ UNCHANGED <<hostRefs, lateCancel, terminated>>
    /\ UNCHANGED unitVars
    /\ UNCHANGED executeVars
    /\ UNCHANGED refVars
    /\ UNCHANGED errorVars
    /\ UNCHANGED completeVars

\* AsyncWorker::Queue(): napi_queue_async_work, which the caller may request
\* once per unit (the host does not support queueing an entry again).
Queue(u, st) ==
    /\ CallerMayRun
    /\ life[u] = "live"
    /\ _work[u] # nullptr
    /\ hostWork[_work[u]] = "created"
    /\ hostWork' = [hostWork EXCEPT ![_work[u]] =
           IF st = napi_ok THEN "queued" ELSE @]
    /\ scheduled' = [scheduled EXCEPT ![u] = @ \/ st = napi_ok]
    /\ call' = Returned("Queue", u, st)
    /\ UNCHANGED <<hostRefs, lateCancel, terminated>>
    /\ UNCHANGED unitVars
    /\ UNCHANGED executeVars
    /\ UNCHANGED refVars
    /\ UNCHANGED errorVars
    /\ UNCHANGED completeVars

\* A variant of Cancel that records the cancellation as the unit's error.
Cancel_SetsError(u, st) ==
    /\ CallerMayRun
    /\ life[u] = "live"
    /\ _work[u] # nullptr
    /\ st \in HostCancelStatuses(_work[u])
    /\ hostWork' = HostCancel(_work[u], st)
    /\ call' = Returned("Cancel", u, st)
    /\ lateCancel' = [lateCancel EXCEPT ![u] =
           @ \/ hostWork[_work[u]] \in {"running", "executed"}]
    /\ _error' = SetError(u, <<1>>)
    /\ UNCHANGED <<life, _work, _receiver, _callback, hostRefs, scheduled,
                   terminated>>
    /\ UNCHANGED executeVars
    /\ UNCHANGED refVars
    /\ UNCHANGED errorVars
    /\ UNCHANGED completeVars

\* AsyncWorker::Cancel(): napi_cancel_async_work on a unit that still exists.
Cancel(u, st) ==
    /\ CallerMayRun
    /\ life[u] = "live"
    /\ _work[u] # nullptr
    /\ st \in HostCancelStatuses(_work[u])
    /\ hostWork' = HostCancel(_work[u], st)
    /\ call' = Returned("Cancel", u, st)
    /\ lateCancel' = [lateCancel EXCEPT ![u] =
           @ \/ hostWork[_work[u]] \in {"running", "executed"}]
    /\ UNCHANGED <<hostRefs, scheduled, terminated>>
    /\ UNCHANGED unitVars
    /\ UNCHANGED executeVars
    /\ UNCHANGED refVars
    /\ UNCHANGED errorVars
    /\ UNCHANGED completeVars

\* AsyncWorker::AsyncWorker(AsyncWorker&& other), constructing unit u from
\* `other`: the entry handle and the captured text are taken and the two
\* holders are move-assigned into u's default-constructed (empty) holders, so
\* no host call is made.  `other` is left hollow.
MoveConstruct(u, other) ==
    /\ CallerMayRun
    /\ life[u] = "unborn"
    /\ \A v \in Units : v < u => life[v] # "unborn"
    /\ life[other] = "live"
    /\ life' = [life EXCEPT ![u] = "live", ![other] = "moved"]
    /\ _work' = [_work EXCEPT ![u] = _work[other], ![other] = nullptr]
    /\ _receiver' = [_receiver EXCEPT ![u] = _receiver[other],
                                      ![other] = nullptr]
    /\ _callback' = [_callback EXCEPT ![u] = _callback[other],
                                      ![other] = nullptr]
    /\ _error' = [_error EXCEPT ![u] = _error[other], ![other] = <<>>]
    /\ scheduled' = [scheduled EXCEPT ![u] = scheduled[other]]
    /\ call' = Returned("AsyncWorker(&&)", u, napi_ok)
    /\ UNCHANGED <<lateCancel, terminated>>
    /\ UNCHANGED hostVars
    /\ UNCHANGED executeVars
    /\ UNCHANGED refVars
    /\ UNCHANGED errorVars
    /\ UNCHANGED completeVars

\* AsyncWorker::operator =(AsyncWorker&& other) on unit u: _work is
\* overwritten with other's handle (the entry u held is not deleted); each
\* holder is move-assigned, which first Reset()s u's own holder:
\* napi_delete_reference on a held handle (rSt, cSt), throwing when it fails
\* and leaving the members after it as they were; then the text is moved.
MoveAssign(u, other, rSt, cSt) ==
    /\ CallerMayRun
    /\ u # other
    /\ life[u] \in {"live", "moved"}
    /\ life[other] = "live"
    /\ LET rThrows == _receiver[u] # nullptr /\ Throws(rSt)
           cThrows == _callback[u] # nullptr /\ Throws(cSt)
           hr1 == IF _receiver[u] # nullptr
                  THEN [hostRefs EXCEPT ![_receiver[u]] = @ \ {"receiver"}]
                  ELSE hostRefs
           hr2 == IF _callback[u] # nullptr
                  THEN [hr1 EXCEPT ![_callback[u]] = @ \ {"callback"}]
                  ELSE hr1
       IN  /\ _work' = [_work EXCEPT ![u] = _work[other], ![other] = nullptr]
           /\ IF rThrows
              THEN /\ call' = Returned("operator=", u, rSt)
                   /\ UNCHANGED <<life, _receiver, _callback, _error, hostRefs,
                                  scheduled>>
              ELSE IF cThrows
              THEN /\ call' = Returned("operator=", u, cSt)
                   /\ _receiver' = [_receiver EXCEPT ![u] = _receiver[other],
                                                     ![other] = nullptr]
                   /\ hostRefs' = hr1
                   /\ UNCHANGED <<life, _callback, _error, scheduled>>
              ELSE /\ call' = Returned("operator=", u, napi_ok)
                   /\ _receiver' = [_receiver EXCEPT ![u] = _receiver[other],
                                                     ![other] = nullptr]
                   /\ _callback' = [_callback EXCEPT ![u] = _callback[other],
                                                     ![other] = nullptr]
                   /\ _error' = [_error EXCEPT ![u] = _error[other],
                                               ![other] = <<>>]
                   /\ hostRefs' = hr2
                   /\ life' = [life EXCEPT ![u] = "live", ![other] = "moved"]
                   /\ scheduled' = [scheduled EXCEPT ![u] = scheduled[other]]
    /\ UNCHANGED <<hostWork, lateCancel, terminated>>
    /\ UNCHANGED executeVars
    /\ UNCHANGED refVars
    /\ UNCHANGED errorVars
    /\ UNCHANGED completeVars

\* --------------------------------------------------- the off-thread phase
\* The host's worker thread enters AsyncWorker::OnExecute, which calls
\* self->Execute().
OnExecuteBegin(u) ==
    /\ ~terminated
    /\ HostMayExecute(u)
    /\ hostWork' = [hostWork EXCEPT ![u] = "running"]
    /\ pcExecute' = [pcExecute EXCEPT ![u] = "Execute"]
    /\ nExecute' = [nExecute EXCEPT ![u] = @ + 1]
    /\ call' = NoCall
    /\ UNCHANGED <<lateCancel, scheduled>>
    /\ UNCHANGED <<hostRefs, executed, nSetError, terminated>>
    /\ UNCHANGED unitVars
    /\ UNCHANGED completeVars
    /\ UNCHANGED refVars
    /\ UNCHANGED errorVars

\* Execute() returns, having reported the failure text `error` through
\* SetError (no call when it is empty); OnExecute returns to the host.
ExecuteReturns(u, error) ==
    /\ ~terminated
    /\ pcExecute[u] = "Execute"
    /\ _error' = IF error = <<>> THEN _error ELSE SetError(u, error)
    /\ nSetError' = [nSetError EXCEPT ![u] = IF error = <<>> THEN @ ELSE @ + 1]
    /\ executed' = [executed EXCEPT ![u] =
           [how |-> "returned", what |-> <<>>, set |-> error]]
    /\ pcExecute' = [pcExecute EXCEPT ![u] = "returned"]
    /\ hostWork' = [hostWork EXCEPT ![u] = "executed"]
    /\ call' = NoCall
    /\ UNCHANGED <<lateCancel, scheduled, nExecute>>
    /\ UNCHANGED <<life, _work, _receiver, _callback, hostRefs, terminated>>
    /\ UNCHANGED completeVars
    /\ UNCHANGED refVars
    /\ UNCHANGED errorVars

\* Execute() throws, having reported the failure text `error` through
\* SetError before (no call when it is empty).
\* `catch (const std::exception& e)` takes an exception derived from
\* std::exception; any other leaves OnExecute and the worker thread's
\* callback, which ends the process.
ExecuteThrows(u, how, what, error) ==
    /\ ~terminated
    /\ pcExecute[u] = "Execute"
    /\ _error' = IF error = <<>> THEN _error ELSE SetError(u, error)
    /\ nSetError' = [nSetError EXCEPT ![u] = IF error = <<>> THEN @ ELSE @ + 1]
    /\ executed' = [executed EXCEPT ![u] =
           [how |-> how, what |-> what, set |-> error]]
    /\ IF how = "std::exception"
       THEN /\ pcExecute' = [pcExecute EXCEPT ![u] = "catch"]
            /\ UNCHANGED terminated
       ELSE /\ pcExecute' = [pcExecute EXCEPT ![u] = "escaped"]
            /\ terminated' = TRUE
    /\ call' = NoCall
    /\ UNCHANGED <<lateCancel, scheduled, nExecute>>
    /\ UNCHANGED hostVars
    /\ UNCHANGED <<life, _work, _receiver, _callback>>
    /\ UNCHANGED completeVars
    /\ UNCHANGED refVars
    /\ UNCHANGED errorVars

\* A variant of OnExecuteCatch that runs Execute again after a failure.
OnExecuteCatch_Retry(u) ==
    /\ ~terminated
    /\ pcExecute[u] = "catch"
    /\ _error' = SetError(u, StdString(c_str(executed[u].what)))
    /\ nSetError' = [nSetError EXCEPT ![u] = @ + 1]
    /\ pcExecute' = [pcExecute EXCEPT ![u] = "Execute"]
    /\ nExecute' = [nExecute EXCEPT ![u] = @ + 1]
    /\ call' = NoCall
    /\ UNCHANGED <<lateCancel, scheduled>>
    /\ UNCHANGED <<life, _work, _receiver, _callback, executed, terminated>>
    /\ UNCHANGED hostVars
    /\ UNCHANGED completeVars
    /\ UNCHANGED refVars
    /\ UNCHANGED errorVars

\* A variant of OnExecuteCatch that creates the error value in the handler.
OnExecuteCatch_CreatesError(u) ==
    /\ ~terminated
    /\ pcExecute[u] = "catch"
    /\ _error' = SetError(u, StdString(c_str(executed[u].what)))
    /\ nSetError' = [nSetError EXCEPT ![u] = @ + 1]
    /\ errorArg' = [errorArg EXCEPT ![u] =
           Append(@, ErrorNewMessage(StdString(c_str(executed[u].what))))]
    /\ pcExecute' = [pcExecute EXCEPT ![u] = "returned"]
    /\ hostWork' = [hostWork EXCEPT ![u] = "executed"]
    /\ call' = NoCall
    /\ UNCHANGED <<lateCancel, scheduled, nExecute>>
    /\ UNCHANGED <<life, _work, _receiver, _callback, hostRefs, executed,
                   terminated>>
    /\ UNCHANGED <<pcComplete, status, caught, nOnOK, nOnError, callbacks,
                   jsException, scopes>>
    /\ UNCHANGED refVars
    /\ UNCHANGED errorVars

\* The handler of OnExecute: self->SetError(e.what()), then OnExecute returns.
OnExecuteCatch(u) ==
    /\ ~terminated
    /\ pcExecute[u] = "catch"
    /\ _error' = SetError(u, StdString(c_str(executed[u].what)))
    /\ nSetError' = [nSetError EXCEPT ![u] = @ + 1]
    /\ pcExecute' = [pcExecute EXCEPT ![u] = "returned"]
    /\ hostWork' = [hostWork EXCEPT ![u] = "executed"]
    /\ call' = NoCall
    /\ UNCHANGED <<lateCancel, scheduled, nExecute>>
    /\ UNCHANGED <<life, _work, _receiver, _callback, hostRefs, executed,
                   terminated>>
    /\ UNCHANGED completeVars
    /\ UNCHANGED refVars
    /\ UNCHANGED errorVars

\* ---------------------------------------------------- the on-thread phase
\* The host enters AsyncWorker::OnWorkComplete(env, status, this_pointer).
\* A status other than napi_cancelled opens `HandleScope scope(self->_env)`,
\* whose constructor throws when napi_open_handle_scope fails (scopeSt); that
\* exception is outside the try block and leaves the callback.
OnWorkCompleteBegin(u, scopeSt) ==
    /\ ~terminated
    /\ ~MainBusy
    /\ pcComplete[u] = "idle"
    /\ HostMayComplete(u)
    /\ status' = [status EXCEPT ![u] = HostCompletionStatus(u)]
    /\ hostWork' = [hostWork EXCEPT ![u] = "completing"]
    /\ IF HostCompletionStatus(u) # napi_cancelled
       THEN IF Throws(scopeSt)
            THEN /\ pcComplete' = [pcComplete EXCEPT ![u] = "escaped"]
                 /\ terminated' = TRUE
                 /\ UNCHANGED scopes
            ELSE /\ pcComplete' = [pcComplete EXCEPT ![u] = "try"]
                 /\ scopes' = [scopes EXCEPT ![u] =
                        ScopeOpened(@, "OnWorkComplete")]
                 /\ UNCHANGED terminated
       ELSE /\ pcComplete' = [pcComplete EXCEPT ![u] = "delete"]
            /\ UNCHANGED <<scopes, terminated>>
    /\ call' = NoCall
    /\ UNCHANGED <<lateCancel, scheduled>>
    /\ UNCHANGED <<hostRefs, caught, nOnOK, nOnError, errorArg, callbacks,
                   jsException>>
    /\ UNCHANGED unitVars
    /\ UNCHANGED executeVars
    /\ UNCHANGED refVars
    /\ UNCHANGED errorVars

\* What a call of OnOK or OnError can end with: it returns, it throws a
\* Napi::Error (holding an error value, or empty), or it throws an exception
\* of another type.
Outcomes == {"returns", "Error", "EmptyError", "exception"}

\* Where a default handler can fail: in taking the values of the receiver
\* and of the error (its arguments), in opening the escapable scope of
\* FunctionReference::MakeCallback, in taking the value of the callback, in
\* napi_make_callback (which also reports an exception thrown by the
\* callback), in napi_escape_handle, or nowhere.
Failures == {"none", "arguments", "scope", "callback", "napi_make_callback",
             "napi_escape_handle"}

\* What a default handler does with the arguments args when its host calls
\* fail at `fail`: the napi_make_callback call it makes, on the callback with
\* the value of _receiver as receiver, and how it ends (a failing host call
\* throws Error::New(_env)), and the scope it opens and, on every path out of
\* FunctionReference::MakeCallback, closes.
MakeCallback(recv, args, fail) ==
    [made |-> IF fail \in {"arguments", "scope", "callback"} THEN <<>>
              ELSE <<[recv |-> recv, args |-> args]>>,
     scoped |-> IF fail \in {"arguments", "scope"} THEN <<>>
                ELSE ScopeClosed(ScopeOpened(<<>>, "MakeCallback"),
                                 "MakeCallback"),
     outcome |-> IF fail = "none" THEN "returns" ELSE "Error"]

\* AsyncWorker::OnOK(): _callback.MakeCallback(_receiver.Value(), {}).
OnOK(u, fail) == MakeCallback(_receiver[u], <<>>, fail)

\* A variant of OnError that passes no argument to the callback.
OnError_NoArgument(u, e, fail) == MakeCallback(_receiver[u], <<>>, fail)

\* AsyncWorker::OnError(e): _callback.MakeCallback(_receiver.Value(),
\* { e.Value() }).
OnError(u, e, fail) == MakeCallback(_receiver[u], <<e>>, fail)

\* The try block of OnWorkComplete: OnOK() when no error text was captured,
\* otherwise OnError(Error::New(self->_env, self->_error)).  newSt is the
\* status of the host calls of Error::New, which throws a Napi::Error when
\* one fails; `outcome` is how the handler ends, `made` the
\* napi_make_callback calls it makes and `scoped` the scopes it opens and
\* closes.  When the handler returns, the scope of OnWorkComplete closes at
\* the end of its block.
DispatchTry(u, newSt, outcome, made, scoped) ==
    /\ ~terminated
    /\ pcComplete[u] = "try"
    /\ LET ok == NoErrorCaptured(_error[u])
           ran == ok \/ ~Throws(newSt)
           end == IF ran THEN outcome ELSE "Error"
       IN  /\ nOnOK' = [nOnOK EXCEPT ![u] = IF ok THEN @ + 1 ELSE @]
           /\ nOnError' = [nOnError EXCEPT ![u] =
                  IF ~ok /\ ran THEN @ + 1 ELSE @]
           /\ errorArg' = [errorArg EXCEPT ![u] =
                  IF ~ok /\ ran THEN Append(@, ErrorNewMessage(_error[u]))
                  ELSE @]
           /\ callbacks' = [callbacks EXCEPT ![u] =
                  IF ran THEN @ \o made ELSE @]
           /\ CASE end = "returns" ->
                     /\ pcComplete' = [pcComplete EXCEPT ![u] = "delete"]
                     /\ scopes' = [scopes EXCEPT ![u] =
                            ScopeClosed(@ \o scoped, "OnWorkComplete")]
                     /\ UNCHANGED <<caught, terminated>>
                [] end \in {"Error", "EmptyError"} ->
                     /\ pcComplete' = [pcComplete EXCEPT ![u] = "catch"]
                     /\ caught' = [caught EXCEPT ![u] = end]
                     /\ scopes' = [scopes EXCEPT ![u] =
                            IF ran THEN @ \o scoped ELSE @]
                     /\ UNCHANGED terminated
                [] OTHER ->
                     /\ pcComplete' = [pcComplete EXCEPT ![u] = "escaped"]
                     /\ scopes' = [scopes EXCEPT ![u] = @ \o scoped]
                     /\ terminated' = TRUE
                     /\ UNCHANGED caught
    /\ call' = NoCall
    /\ UNCHANGED <<lateCancel, scheduled>>
    /\ UNCHANGED <<status, jsException>>
    /\ UNCHANGED hostVars
    /\ UNCHANGED unitVars
    /\ UNCHANGED executeVars
    /\ UNCHANGED refVars
    /\ UNCHANGED errorVars

\* The try block for a unit whose class overrides OnOK and OnError: the
\* handlers end in any way, and the default callback calls are not made.
OnWorkCompleteTry(u, newSt, outcome) ==
    DispatchTry(u, newSt, outcome, <<>>, <<>>)

\* The try block for a unit whose class keeps the default OnOK and OnError.
OnWorkCompleteTryDefault(u, newSt, fail) ==
    LET h == IF NoErrorCaptured(_error[u])
             THEN OnOK(u, fail)
             ELSE OnError(u, ErrorNewMessage(_error[u]), fail)
    IN  DispatchTry(u, newSt, h.outcome, h.made, h.scoped)

\* A variant of OnWorkCompleteCatch that also stores a text in _error.
OnWorkCompleteCatch_StoresError(u, scopeSt, throwSt) ==
    /\ ~terminated
    /\ pcComplete[u] = "catch"
    /\ IF Throws(scopeSt) \/ (caught[u] = "Error" /\ Throws(throwSt))
       THEN /\ pcComplete' = [pcComplete EXCEPT ![u] = "escaped"]
            /\ terminated' = TRUE
            /\ scopes' = [scopes EXCEPT ![u] =
                   IF Throws(scopeSt) THEN @
                   ELSE ScopeOpened(@, "ThrowAsJavaScriptException")]
            /\ UNCHANGED jsException
       ELSE /\ pcComplete' = [pcComplete EXCEPT ![u] = "delete"]
            /\ jsException' = [jsException EXCEPT ![u] = (caught[u] = "Error")]
            /\ scopes' = [scopes EXCEPT ![u] =
                   ScopeClosed(
                       ScopeClosed(
                           ScopeOpened(@, "ThrowAsJavaScriptException"),
                           "ThrowAsJavaScriptException"),
                       "OnWorkComplete")]
            /\ UNCHANGED terminated
    /\ _error' = SetError(u, <<1>>)
    /\ nSetError' = [nSetError EXCEPT ![u] = @ + 1]
    /\ call' = NoCall
    /\ UNCHANGED <<lateCancel, scheduled>>
    /\ UNCHANGED <<status, caught, nOnOK, nOnError, errorArg, callbacks>>
    /\ UNCHANGED hostVars
    /\ UNCHANGED <<life, _work, _receiver, _callback>>
    /\ UNCHANGED <<pcExecute, executed, nExecute>>
    /\ UNCHANGED refVars
    /\ UNCHANGED errorVars

\* `catch (const Error& e) { e.ThrowAsJavaScriptException(); }`: a handle
\* scope is opened (scopeSt); a non-empty error is handed to napi_throw
\* (throwSt); either failure throws from inside the handler and leaves the
\* callback.  Otherwise the scope of ThrowAsJavaScriptException closes when
\* it returns, then the scope of OnWorkComplete at the end of its block, and
\* the dispatch goes on.
OnWorkCompleteCatch(u, scopeSt, throwSt) ==
    /\ ~terminated
    /\ pcComplete[u] = "catch"
    /\ IF Throws(scopeSt) \/ (caught[u] = "Error" /\ Throws(throwSt))
       THEN /\ pcComplete' = [pcComplete EXCEPT ![u] = "escaped"]
            /\ terminated' = TRUE
            /\ scopes' = [scopes EXCEPT ![u] =
                   IF Throws(scopeSt) THEN @
                   ELSE ScopeOpened(@, "ThrowAsJavaScriptException")]
            /\ UNCHANGED jsException
       ELSE /\ pcComplete' = [pcComplete EXCEPT ![u] = "delete"]
            /\ jsException' = [jsException EXCEPT ![u] = (caught[u] = "Error")]
            /\ scopes' = [scopes EXCEPT ![u] =
                   ScopeClosed(
                       ScopeClosed(
                           ScopeOpened(@, "ThrowAsJavaScriptException"),
                           "ThrowAsJavaScriptException"),
                       "OnWorkComplete")]
            /\ UNCHANGED terminated
    /\ call' = NoCall
    /\ UNCHANGED <<lateCancel, scheduled>>
    /\ UNCHANGED <<status, caught, nOnOK, nOnError, errorArg, callbacks>>
    /\ UNCHANGED hostVars
    /\ UNCHANGED unitVars
    /\ UNCHANGED executeVars
    /\ UNCHANGED refVars
    /\ UNCHANGED errorVars

\* `delete self;` and the return to the host: ~AsyncWorker() deletes the work
\* entry, then the members are destroyed (_error, _callback, _receiver), each
\* holder reading its own indeterminate _suppressDestruct (supC, supR).
OnWorkCompleteDelete(u, supR, supC) ==
    /\ ~terminated
    /\ pcComplete[u] = "delete"
    /\ life' = [life EXCEPT ![u] = "destroyed"]
    /\ hostWork' = IF _work[u] # nullptr
                    THEN [hostWork EXCEPT ![_work[u]] = "deleted"]
                    ELSE hostWork
    /\ _work' = [_work EXCEPT ![u] = nullptr]
    /\ hostRefs' =
           ReferenceDestruct(
               ReferenceDestruct(hostRefs, "callback", _callback[u], supC),
               "receiver", _receiver[u], supR)
    /\ _receiver' = [_receiver EXCEPT ![u] = nullptr]
    /\ _callback' = [_callback EXCEPT ![u] = nullptr]
    /\ _error' = [_error EXCEPT ![u] = <<>>]
    /\ pcComplete' = [pcComplete EXCEPT ![u] = "returned"]
    /\ call' = NoCall
    /\ UNCHANGED <<lateCancel, scheduled>>
    /\ UNCHANGED <<status, caught, nOnOK, nOnError, errorArg, callbacks,
                   jsException, scopes, terminated>>
    /\ UNCHANGED executeVars
    /\ UNCHANGED refVars
    /\ UNCHANGED errorVars

\* ------------------------------------------------- reference holders
\* `if (!_suppressDestruct)` reads the flag of a holder: the value stored by
\* Reference() or SuppressDestruct(), or, when no constructor stored one, an
\* indeterminate value (garbage).
ReadSuppress(flag, garbage) ==
    IF flag = "indeterminate" THEN garbage ELSE flag = "true"

\* napi_delete_reference on the host's reference id.
HostDeleteReference(id) ==
    [hostRef EXCEPT ![id] = [@ EXCEPT !.state = "deleted", !.count = 0,
                                      !.adjust = 0, !.deletes = @ + 1]]

\* Reference<T>::New(value, initialRefcount) returning into holder h through
\* Reference(napi_env, napi_ref), which leaves _suppressDestruct unset.  kind
\* is the function the caller used.  The value must still exist to be passed.
ReferenceNewHolder(h, value, initialRefcount, kind, st) ==
    /\ CallerMayRun
    /\ holder[h].life = "unborn"
    /\ \A g \in Holders : g < h => holder[g].life # "unborn"
    /\ ~collected
    /\ LET r == ReferenceNew(value, st)
       IN  IF r = "throw"
           THEN UNCHANGED <<holder, hostRef>>
           ELSE /\ holder' = [holder EXCEPT ![h] =
                       [life |-> "live", _ref |-> Held(r, h),
                        _suppressDestruct |-> "indeterminate",
                        last |-> nullptr]]
                /\ hostRef' = IF r = "ref"
                              THEN [hostRef EXCEPT ![h] =
                                       [state |-> "live",
                                        count |-> initialRefcount,
                                        kind |-> kind, adjust |-> 0,
                                        deletes |-> 0]]
                              ELSE hostRef
    /\ call' = Returned(kind, h, IF value = "empty" THEN napi_ok ELSE st)
    /\ UNCHANGED <<collected, terminated>>
    /\ UNCHANGED workerVars
    /\ UNCHANGED errorVars

\* Weak(value): Reference<T>::New(value, 0).
Weak(h, value, st) == ReferenceNewHolder(h, value, 0, "Weak", st)

\* A variant of Persistent that passes the initial count of a weak reference.
Persistent_CountZero(h, value, st) ==
    ReferenceNewHolder(h, value, 0, "Persistent", st)

\* Persistent(value): Reference<T>::New(value, 1).
Persistent(h, value, st) == ReferenceNewHolder(h, value, 1, "Persistent", st)

\* Reference<T>::Reference(): an empty holder with _suppressDestruct(false).
ReferenceDefault(h) ==
    /\ CallerMayRun
    /\ holder[h].life = "unborn"
    /\ \A g \in Holders : g < h => holder[g].life # "unborn"
    /\ holder' = [holder EXCEPT ![h] =
           [life |-> "live", _ref |-> nullptr, _suppressDestruct |-> "false",
            last |-> nullptr]]
    /\ call' = Returned("Reference", h, napi_ok)
    /\ UNCHANGED <<hostRef, collected, terminated>>
    /\ UNCHANGED workerVars
    /\ UNCHANGED errorVars

\* Reference<T>::Ref(): napi_reference_ref on the held handle, of a value that
\* still exists; the host raises the count by one.
Ref(h, st) ==
    /\ CallerMayRun
    /\ holder[h].life = "live"
    /\ holder[h]._ref # nullptr
    /\ ~collected
    /\ hostRef[holder[h]._ref].count < MaxCount
    /\ hostRef' = IF Throws(st) THEN hostRef
                  ELSE [hostRef EXCEPT ![holder[h]._ref] =
                           [@ EXCEPT !.count = @ + 1, !.adjust = @ + 1]]
    /\ call' = Returned("Ref", h, st)
    /\ UNCHANGED <<holder, collected, terminated>>
    /\ UNCHANGED workerVars
    /\ UNCHANGED errorVars

\* Reference<T>::Unref(): napi_reference_unref on the held handle; the host
\* lowers the count by one and rejects the call when the count is zero.
Unref(h, st) ==
    /\ CallerMayRun
    /\ holder[h].life = "live"
    /\ holder[h]._ref # nullptr
    /\ ~collected
    /\ hostRef[holder[h]._ref].count = 0 => st # napi_ok
    /\ hostRef' = IF Throws(st) THEN hostRef
                  ELSE [hostRef EXCEPT ![holder[h]._ref] =
                           [@ EXCEPT !.count = @ - 1, !.adjust = @ - 1]]
    /\ call' = Returned("Unref", h, st)
    /\ UNCHANGED <<holder, collected, terminated>>
    /\ UNCHANGED workerVars
    /\ UNCHANGED errorVars

\* Reference<T>::Reset(): napi_delete_reference on a held handle, throwing
\* when the host rejects it; the holder is empty afterwards.
Reset(h, st) ==
    /\ CallerMayRun
    /\ holder[h].life = "live"
    /\ IF holder[h]._ref = nullptr
       THEN /\ call' = Returned("Reset", h, napi_ok)
            /\ UNCHANGED <<holder, hostRef>>
       ELSE IF Throws(st)
       THEN /\ call' = Returned("Reset", h, st)
            /\ UNCHANGED <<holder, hostRef>>
       ELSE /\ call' = Returned("Reset", h, st)
            /\ hostRef' = HostDeleteReference(holder[h]._ref)
            /\ holder' = [holder EXCEPT ![h]._ref = nullptr]
    /\ UNCHANGED <<collected, terminated>>
    /\ UNCHANGED workerVars
    /\ UNCHANGED errorVars

\* The handles the host has not handed out: ids of holders that exist and
\* obtained no handle when they were constructed.
FreshRefs == {id \in Holders : /\ hostRef[id].state = "none"
                               /\ holder[id].life # "unborn"}

\* Reference<T>::Reset(value, refcount): Reset() (delSt), then, for a value
\* that is not empty, napi_create_reference into _ref (newSt); either host
\* call throws when it fails.
ResetValue(h, value, refcount, delSt, newSt) ==
    /\ CallerMayRun
    /\ holder[h].life = "live"
    /\ ~collected
    /\ FreshRefs # {}
    /\ LET old == holder[h]._ref
           new == CHOOSE id \in FreshRefs : \A o \in FreshRefs : id <= o
           reset == IF old # nullptr THEN HostDeleteReference(old)
                    ELSE hostRef
       IN  IF old # nullptr /\ Throws(delSt)
           THEN /\ call' = Returned("Reset(value)", h, delSt)
                /\ UNCHANGED <<holder, hostRef>>
           ELSE IF value = "empty"
           THEN /\ call' = Returned("Reset(value)", h, napi_ok)
                /\ holder' = [holder EXCEPT ![h]._ref = nullptr]
                /\ hostRef' = reset
           ELSE IF Throws(newSt)
           THEN /\ call' = Returned("Reset(value)", h, newSt)
                /\ holder' = [holder EXCEPT ![h]._ref = nullptr]
                /\ hostRef' = reset
           ELSE /\ call' = Returned("Reset(value)", h, napi_ok)
                /\ holder' = [holder EXCEPT ![h]._ref = new]
                /\ hostRef' = [reset EXCEPT ![new] =
                       [state |-> "live", count |-> refcount,
                        kind |-> IF refcount = 0 THEN "Reset(value, 0)"
                                 ELSE "Reset(value, 1)",
                        adjust |-> 0, deletes |-> 0]]
    /\ UNCHANGED <<collected, terminated>>
    /\ UNCHANGED workerVars
    /\ UNCHANGED errorVars

\* Reference<T>::SuppressDestruct(): _suppressDestruct = true.
SuppressDestruct(h) ==
    /\ CallerMayRun
    /\ holder[h].life = "live"
    /\ holder' = [holder EXCEPT ![h]._suppressDestruct = "true"]
    /\ call' = Returned("SuppressDestruct", h, napi_ok)
    /\ UNCHANGED <<hostRef, collected, terminated>>
    /\ UNCHANGED workerVars
    /\ UNCHANGED errorVars

\* A variant of ReferenceMove that leaves the handle in other as well.
ReferenceMove_KeepsSource(h, other) ==
    /\ CallerMayRun
    /\ holder[h].life = "unborn"
    /\ \A g \in Holders : g < h => holder[g].life # "unborn"
    /\ holder[other].life = "live"
    /\ holder' = [holder EXCEPT
           ![h] = [life |-> "live", _ref |-> holder[other]._ref,
                   _suppressDestruct |-> "indeterminate", last |-> nullptr]]
    /\ call' = Returned("Reference(&&)", h, napi_ok)
    /\ UNCHANGED <<hostRef, collected, terminated>>
    /\ UNCHANGED workerVars
    /\ UNCHANGED errorVars

\* Reference<T>::Reference(Reference<T>&& other) constructing holder h: the
\* handle is taken and other is emptied; _suppressDestruct is not set.
ReferenceMove(h, other) ==
    /\ CallerMayRun
    /\ holder[h].life = "unborn"
    /\ \A g \in Holders : g < h => holder[g].life # "unborn"
    /\ holder[other].life = "live"
    /\ holder' = [holder EXCEPT
           ![h] = [life |-> "live", _ref |-> holder[other]._ref,
                   _suppressDestruct |-> "indeterminate", last |-> nullptr],
           ![other]._ref = nullptr]
    /\ call' = Returned("Reference(&&)", h, napi_ok)
    /\ UNCHANGED <<hostRef, collected, terminated>>
    /\ UNCHANGED workerVars
    /\ UNCHANGED errorVars

\* Reference<T>::operator =(Reference<T>&& other) on holder h: Reset(), then
\* the handle is taken and other is emptied (when other is h itself, the
\* holder is left empty); _suppressDestruct is kept.
ReferenceMoveAssign(h, other, st) ==
    /\ CallerMayRun
    /\ holder[h].life = "live"
    /\ holder[other].life = "live"
    /\ IF holder[h]._ref # nullptr /\ Throws(st)
       THEN /\ call' = Returned("operator=", h, st)
            /\ UNCHANGED <<holder, hostRef>>
       ELSE /\ call' = Returned("operator=", h, napi_ok)
            /\ hostRef' = IF holder[h]._ref # nullptr
                          THEN HostDeleteReference(holder[h]._ref)
                          ELSE hostRef
            /\ holder' = [holder EXCEPT ![h]._ref = holder[other]._ref,
                                        ![other]._ref = nullptr]
    /\ UNCHANGED <<collected, terminated>>
    /\ UNCHANGED workerVars
    /\ UNCHANGED errorVars

\* Reference<T>::~Reference() on holder h: a held handle is deleted with
\* napi_delete_reference unless _suppressDestruct reads true; `last` keeps
\* the handle the holder held when it was destroyed.
HolderDestruct(h, garbage) ==
    /\ CallerMayRun
    /\ holder[h].life = "live"
    /\ holder' = [holder EXCEPT ![h].life = "destroyed",
                                ![h].last = holder[h]._ref,
                                ![h]._ref = nullptr]
    /\ hostRef' =
           IF /\ holder[h]._ref # nullptr
              /\ ~ReadSuppress(holder[h]._suppressDestruct, garbage)
           THEN HostDeleteReference(holder[h]._ref)
           ELSE hostRef
    /\ call' = Returned("~Reference", h, napi_ok)
    /\ UNCHANGED <<collected, terminated>>
    /\ UNCHANGED workerVars
    /\ UNCHANGED errorVars

\* The host's collector: the value is collected when no reference to it has
\* a count above zero (the caller's handle scopes have closed).
HostCollect ==
    /\ ~terminated
    /\ ~collected
    /\ \A id \in Holders : hostRef[id].state = "live" => hostRef[id].count = 0
    /\ collected' = TRUE
    /\ call' = NoCall
    /\ UNCHANGED <<holder, hostRef, terminated>>
    /\ UNCHANGED workerVars
    /\ UNCHANGED errorVars

\* ------------------------------------------------------- the specification
\* What Execute may throw: an exception derived from std::exception, with its
\* what() text, or anything else.
Thrown == {"std::exception", "other"}

\* What Execute may have reported through SetError before it throws: nothing,
\* or a text.
Reported == {<<>>, <<1>>}

\* The receiver and the callback the caller constructs a unit with: values
\* of the host (ReferenceNew also covers an empty one, which gives an empty
\* holder).
Receivers == {"object"}
Callbacks == {"function"}

Next ==
    \E u \in Units :
        \/ \E receiver \in Receivers, callback \in Callbacks,
              rSt \in Statuses, cSt \in Statuses, wSt \in Statuses,
              supR \in BOOLEAN, supC \in BOOLEAN :
               Construct(u, receiver, callback, rSt, cSt, wSt, supR, supC)
        \/ \E st \in Statuses : Queue(u, st)
        \/ \E st \in Statuses : Cancel(u, st)
        \/ OnExecuteBegin(u)
        \/ \E error \in Msgs : ExecuteReturns(u, error)
        \/ \E how \in Thrown, what \in Msgs, error \in Reported :
               ExecuteThrows(u, how, what, error)
        \/ OnExecuteCatch(u)
        \/ \E scopeSt \in Statuses : OnWorkCompleteBegin(u, scopeSt)
        \/ \E newSt \in Statuses, outcome \in Outcomes :
               OnWorkCompleteTry(u, newSt, outcome)
        \/ \E scopeSt \in Statuses, throwSt \in Statuses :
               OnWorkCompleteCatch(u, scopeSt, throwSt)
        \/ \E supR \in BOOLEAN, supC \in BOOLEAN :
               OnWorkCompleteDelete(u, supR, supC)

Spec == Init /\ [][Next]_vars

\* The bridge under the scheduling the host promises: an entry that was
\* queued is eventually run, its completion is eventually delivered, and each
\* entry point, once entered, runs on to its end (Execute, OnOK and OnError
\* terminate).  The caller's calls are under no obligation.
HostStep(u) ==
    \/ OnExecuteBegin(u)
    \/ \E error \in Msgs : ExecuteReturns(u, error)
    \/ \E how \in Thrown, what \in Msgs, error \in Reported :
           ExecuteThrows(u, how, what, error)
    \/ OnExecuteCatch(u)
    \/ \E scopeSt \in Statuses : OnWorkCompleteBegin(u, scopeSt)
    \/ \E newSt \in Statuses, outcome \in Outcomes :
           OnWorkCompleteTry(u, newSt, outcome)
    \/ \E scopeSt \in Statuses, throwSt \in Statuses :
           OnWorkCompleteCatch(u, scopeSt, throwSt)
    \/ \E supR \in BOOLEAN, supC \in BOOLEAN :
           OnWorkCompleteDelete(u, supR, supC)

SpecLive == Init /\ [][Next]_vars /\ \A u \in Units : WF_vars(HostStep(u))

\* The caller's side alone, before the host schedules anything: units are
\* constructed (also with an empty receiver), queued, cancelled, and moved
\* into one another.
AnyReceivers == {"object", "empty"}

NextCaller ==
    \E u \in Units :
        \/ \E receiver \in AnyReceivers, callback \in Callbacks,
              rSt \in Statuses, cSt \in Statuses, wSt \in Statuses,
              supR \in BOOLEAN, supC \in BOOLEAN :
               Construct(u, receiver, callback, rSt, cSt, wSt, supR, supC)
        \/ \E st \in Statuses : Queue(u, st)
        \/ \E st \in Statuses : Cancel(u, st)
        \/ \E other \in Units : MoveConstruct(u, other)
        \/ \E other \in Units, rSt \in Statuses, cSt \in Statuses :
               MoveAssign(u, other, rSt, cSt)

SpecCaller == Init /\ [][NextCaller]_vars

\* The bridge with units whose class keeps the default OnOK and OnError.
NextDefault ==
    \E u \in Units :
        \/ \E receiver \in Receivers, callback \in Callbacks,
              rSt \in Statuses, cSt \in Statuses, wSt \in Statuses,
              supR \in BOOLEAN, supC \in BOOLEAN :
               Construct(u, receiver, callback, rSt, cSt, wSt, supR, supC)
        \/ \E st \in Statuses : Queue(u, st)
        \/ \E st \in Statuses : Cancel(u, st)
        \/ OnExecuteBegin(u)
        \/ \E error \in Msgs : ExecuteReturns(u, error)
        \/ \E how \in Thrown, what \in Msgs :
               ExecuteThrows(u, how, what, <<>>)
        \/ OnExecuteCatch(u)
        \/ \E scopeSt \in Statuses : OnWorkCompleteBegin(u, scopeSt)
        \/ \E newSt \in Statuses, fail \in Failures :
               OnWorkCompleteTryDefault(u, newSt, fail)
        \/ \E scopeSt \in Statuses, throwSt \in Statuses :
               OnWorkCompleteCatch(u, scopeSt, throwSt)
        \/ \E supR \in BOOLEAN, supC \in BOOLEAN :
               OnWorkCompleteDelete(u, supR, supC)

SpecDefault == Init /\ [][NextDefault]_vars

\* The reference holders on their own: the caller creates, adjusts, moves,
\* resets and destroys holders of one value while the host's collector runs.
Values == {"object", "empty"}

NextRef ==
    \/ \E h \in Holders :
           \/ \E value \in Values, st \in Statuses : Weak(h, value, st)
           \/ \E value \in Values, st \in Statuses : Persistent(h, value, st)
           \/ ReferenceDefault(h)
           \/ \E st \in Statuses : Ref(h, st)
           \/ \E st \in Statuses : Unref(h, st)
           \/ \E st \in Statuses : Reset(h, st)
           \/ \E value \in Values, refcount \in {0, 1},
                 delSt \in Statuses, newSt \in Statuses :
                  ResetValue(h, value, refcount, delSt, newSt)
           \/ SuppressDestruct(h)
           \/ \E other \in Holders : ReferenceMove(h, other)
           \/ \E other \in Holders, st \in Statuses :
                  ReferenceMoveAssign(h, other, st)
           \/ \E garbage \in BOOLEAN : HolderDestruct(h, garbage)
    \/ HostCollect

SpecRef == Init /\ [][NextRef]_vars

\* ------------------------------------------- the status-to-failure translator
\* std::strlen: the number of characters before the first NUL.
strlen(buf) == FirstNul(buf, 1) - 1

\* The literal "Error in native callback", written with a character that no
\* message of the host in this model uses.
ErrorInNativeCallback == <<2>>

\* A variant of TypeErrorCodes without napi_number_expected.
TypeErrorCodes_NoNumber ==
    {napi_object_expected, napi_string_expected, napi_boolean_expected}

\* The case labels of Error::New(env) that select napi_create_type_error.
TypeErrorCodes ==
    {napi_object_expected, napi_string_expected, napi_boolean_expected,
     napi_number_expected}

\* `assert(status == napi_ok)` followed by code guarded by
\* `if (status == napi_ok)`: a failed host call aborts a build with
\* assertions and is skipped over by one without (NDEBUG).
Asserted(st, NDEBUG) == IF st = napi_ok THEN "ok"
                        ELSE IF NDEBUG THEN "skipped" ELSE "aborted"

\* Error::Error(env, value): a reference to a value that is not null is
\* created (refSt); the failure is asserted and otherwise leaves the error
\* empty.
ErrorCtor(value, refSt, NDEBUG) ==
    IF value = NoValue THEN [outcome |-> "returned", error |-> NoValue]
    ELSE CASE Asserted(refSt, NDEBUG) = "ok" ->
                  [outcome |-> "returned", error |-> value]
           [] Asserted(refSt, NDEBUG) = "skipped" ->
                  [outcome |-> "returned", error |-> NoValue]
           [] OTHER -> [outcome |-> "aborted", error |-> NoValue]

\* Error::New(env) on the host's last error information `info` and pending
\* exception `exception`; sts are the statuses of its host calls:
\* napi_get_last_error_info, napi_get_and_clear_last_exception,
\* napi_create_string_utf8, napi_create_error or napi_create_type_error,
\* napi_create_reference.  Gives how the call ends, the value the returned
\* Error holds, and whether the pending exception was cleared.
ErrorNew(info, exception, sts, NDEBUG) ==
    LET aborted == [outcome |-> "aborted", error |-> NoValue,
                    cleared |-> FALSE]
        made(value, cleared) ==
            LET e == ErrorCtor(value, sts[5], NDEBUG)
            IN  [outcome |-> e.outcome, error |-> e.error,
                 cleared |-> cleared]
        text == IF info.has_message THEN c_str(info.error_message)
                ELSE c_str(ErrorInNativeCallback)
        message == napi_create_string_utf8(text, strlen(text))
    IN  CASE Asserted(sts[1], NDEBUG) = "aborted" -> aborted
          [] Asserted(sts[1], NDEBUG) = "skipped" -> made(NoValue, FALSE)
          [] OTHER ->
               IF info.error_code = napi_pending_exception
               THEN CASE Asserted(sts[2], NDEBUG) = "aborted" -> aborted
                      [] Asserted(sts[2], NDEBUG) = "skipped" ->
                             made(NoValue, FALSE)
                      [] OTHER -> made(exception, TRUE)
               ELSE CASE Asserted(sts[3], NDEBUG) = "aborted" -> aborted
                      [] Asserted(sts[3], NDEBUG) = "skipped" ->
                             made(NoValue, FALSE)
                      [] OTHER ->
                          CASE Asserted(sts[4], NDEBUG) = "aborted" -> aborted
                            [] Asserted(sts[4], NDEBUG) = "skipped" ->
                                   made(NoValue, FALSE)
                            [] OTHER ->
                                   made([type |->
                                            IF info.error_code
                                                   \in TypeErrorCodes
                                            THEN "TypeError" ELSE "Error",
                                         message |-> message], FALSE)

\* The script exception a failing host call leaves pending.
ScriptException == [type |-> "exception", message |-> <<>>]

\* A host call made by the code returns a status other than napi_ok: the
\* host records the code and, possibly, a message; with the code
\* napi_pending_exception a script exception is pending (one may also be
\* pending from before with another code).  The record of the previous
\* translation is dropped.
HostCallFails(code, has_message, message, raises) ==
    /\ ~terminated
    /\ has_message \/ message = <<>>
    /\ lastError' = [error_code |-> code, has_message |-> has_message,
                     error_message |-> message]
    /\ pendingException' =
           IF code = napi_pending_exception \/ raises THEN ScriptException
           ELSE pendingException
    /\ errorNew' = NoErrorNew
    /\ UNCHANGED <<call, terminated>>
    /\ UNCHANGED workerVars
    /\ UNCHANGED refVars

\* The host's last error information after the host calls of Error::New(env)
\* (each host call replaces it: a successful one with napi_ok).
HostLastErrorAfter(sts) ==
    IF \A i \in DOMAIN sts : sts[i] = napi_ok THEN NoErrorInfo
    ELSE [error_code |-> napi_generic_failure, has_message |-> FALSE,
          error_message |-> <<>>]

\* The code calls Error::New(env) after a host call that failed.
ErrorNewCall(sts, NDEBUG) ==
    /\ ~terminated
    /\ lastError.error_code # napi_ok
    /\ LET r == ErrorNew(lastError, pendingException, sts, NDEBUG)
       IN  /\ errorNew' = [called |-> TRUE, info |-> lastError,
                           pending |-> pendingException, sts |-> sts,
                           outcome |-> r.outcome, error |-> r.error,
                           cleared |-> r.cleared]
           /\ pendingException' = IF r.cleared THEN NoValue
                                  ELSE pendingException
           /\ terminated' = (r.outcome = "aborted")
    /\ lastError' = HostLastErrorAfter(sts)
    /\ UNCHANGED call
    /\ UNCHANGED workerVars
    /\ UNCHANGED refVars

NextError ==
    \/ \E code \in ErrorCodes, has_message \in BOOLEAN, message \in Msgs,
          raises \in BOOLEAN :
           HostCallFails(code, has_message, message, raises)
    \/ \E sts \in [1..5 -> Statuses], NDEBUG \in BOOLEAN :
           ErrorNewCall(sts, NDEBUG)

SpecError == Init /\ [][NextError]_vars

\* ================================================================ properties
Raised(u) == executed[u].how \in Thrown
Delivered(u) == nOnOK[u] + nOnError[u]
Destroyed(u) == life[u] = "destroyed" /\ hostWork[u] = "deleted"

\* C1, as stated: a unit whose Execute returned without raising has, once its
\* dispatch has returned, run OnOK exactly once and OnError never.
C1_AsStated ==
    \A u \in Units :
        executed[u].how = "returned" /\ pcComplete[u] = "returned"
            => nOnOK[u] = 1 /\ nOnError[u] = 0

\* C1, amended: a unit whose Execute returned without raising and without
\* reporting an error text through SetError never runs OnError and runs OnOK
\* at most once, and exactly once by the time its dispatch leaves the try
\* block (to the handler, to the destruction of the unit, to the host).
C1_OnOKOnce ==
    \A u \in Units :
        executed[u].how = "returned" /\ executed[u].set = <<>>
            => /\ nOnError[u] = 0
               /\ errorArg[u] = <<>>
               /\ nOnOK[u] <= 1
               /\ pcComplete[u] \in {"catch", "delete", "returned"}
                      => nOnOK[u] = 1

C1_Witness ==
    \E u \in Units :
        /\ executed[u].how = "returned" /\ executed[u].set = <<>>
        /\ pcComplete[u] = "returned"
        /\ nOnOK[u] = 1

\* C2, as stated: a unit whose Execute raised (any exception, any text) has,
\* once its dispatch has returned, run OnError exactly once with a non-empty
\* message and OnOK never.
C2_AsStated ==
    \A u \in Units :
        Raised(u) /\ pcComplete[u] = "returned"
            => /\ nOnError[u] = 1
               /\ nOnOK[u] = 0
               /\ \A i \in 1..Len(errorArg[u]) : errorArg[u][i] # <<>>

\* C3: the completion dispatch of a unit never begins before its off-thread
\* entry point has returned (or, for a cancelled unit, was never entered): a
\* unit inside or past OnWorkComplete has no worker thread inside OnExecute.
C3_CompletionAfterExecute ==
    \A u \in Units :
        pcComplete[u] # "idle"
            => \/ status[u] = napi_ok /\ pcExecute[u] = "returned"
               \/ status[u] = napi_cancelled /\ pcExecute[u] = "idle"

C3_Witness ==
    \E u, v \in Units :
        /\ pcComplete[u] = "try" /\ pcExecute[u] = "returned"
        /\ pcExecute[v] = "Execute"

\* C4, as stated: a unit cancelled before its off-thread phase started runs
\* neither OnOK nor OnError, and when its dispatch has returned its work-queue
\* entry is deleted and its receiver and callback references are released.
C4_AsStated ==
    \A u \in Units :
        status[u] = napi_cancelled /\ pcComplete[u] = "returned"
            => /\ Delivered(u) = 0
               /\ Destroyed(u)
               /\ hostRefs[u] = {}

\* A step in which Cancel returns for a unit whose Execute had started.
LateCancelStep(u) ==
    /\ call'.op = "Cancel" /\ call'.unit = u
    /\ hostWork[u] \in {"running", "executed"}

C6_AsStated ==
    \A u \in Units :
        pcComplete[u] = "returned" => Destroyed(u) /\ hostRefs[u] = {}

C8_OwnMessage ==
    \A u, v \in Units :
        /\ u # v
        /\ executed[u].how = "std::exception"
        /\ executed[v].how = "std::exception"
        => /\ pcExecute[u] = "returned" /\ life[u] = "live"
                  => _error[u] = executed[u].what
           /\ \A i \in 1..Len(errorArg[u]) : errorArg[u][i] = executed[u].what

C8_Witness ==
    \E u, v \in Units :
        /\ executed[u].how = "std::exception"
        /\ executed[v].how = "std::exception"
        /\ executed[u].what # executed[v].what
        /\ errorArg[u] = <<executed[u].what>>
        /\ errorArg[v] = <<executed[v].what>>

\* C9: the constructor, Queue and Cancel raise to their caller exactly when
\* the host call they make returns a status other than napi_ok; a raising
\* constructor yields no unit and a raising Queue schedules nothing.
C9_RaisesIffNotOk ==
    call.op # "none"
        => /\ call.raised <=> call.status # napi_ok
           /\ call.op = "AsyncWorker"
                  => (call.raised <=> life[call.unit] = "failed")
           /\ call.op = "Queue"
                  => hostWork[call.unit] =
                         (IF call.raised THEN "created" ELSE "queued")

C9_Witness ==
    /\ call.op = "Queue"
    /\ call.status # napi_ok
    /\ call.raised

\* C10, as stated: when OnOK or OnError has raised a Napi::Error, the dispatch
\* does not let an exception leave it: the error becomes a pending script
\* exception and the dispatch goes on to destroy the unit.
C10_AsStated ==
    \A u \in Units :
        caught[u] # "none" /\ Delivered(u) > 0 /\ pcComplete[u] # "catch"
            => /\ pcComplete[u] \in {"delete", "returned"}
               /\ jsException[u]
               /\ pcComplete[u] = "returned" => Destroyed(u)

\* C11, as stated: whatever Execute raises is caught inside OnExecute and
\* kept as the unit's captured text; no exception leaves OnExecute and the
\* process is never ended by a failing Execute.
C11_AsStated ==
    \A u \in Units :
        Raised(u)
            => /\ pcExecute[u] # "escaped"
               /\ pcExecute[u] = "returned" /\ life[u] = "live"
                      => _error[u] = executed[u].what

\* C12, as stated: a unit that met a failure (a raising Execute, a raising
\* OnOK or OnError) and whose dispatch has returned has had OnError invoked
\* or has left a pending script exception; a host call that was rejected has
\* raised to its caller.
C12_AsStated ==
    /\ call.op # "none" /\ call.status # napi_ok => call.raised
    /\ \A u \in Units :
           pcComplete[u] = "returned" /\ (Raised(u) \/ caught[u] # "none")
               => nOnError[u] > 0 \/ jsException[u]

\* C13: for every unit, Execute is invoked at most once and OnOK and OnError
\* are invoked at most once in total, also after Execute has raised or the
\* delivery has raised.
C13_AtMostOnce ==
    \A u \in Units : nExecute[u] <= 1 /\ Delivered(u) <= 1

C13_Witness ==
    \E u \in Units :
        /\ executed[u].how = "std::exception"
        /\ caught[u] # "none"
        /\ pcComplete[u] = "returned"
        /\ nExecute[u] = 1
        /\ Delivered(u) = 1

\* C14: construction registers a unit with the host without scheduling it:
\* a unit on which no call of Queue has returned normally (so also one on
\* which Queue was never called) has its entry registered and unscheduled,
\* and neither Execute nor OnOK nor OnError has run for it, nor has its
\* dispatch begun.
C14_NotScheduledByConstruction ==
    \A u \in Units :
        life[u] = "live" /\ ~scheduled[u]
            => /\ hostWork[u] = "created"
               /\ nExecute[u] = 0 /\ pcExecute[u] = "idle"
               /\ Delivered(u) = 0 /\ pcComplete[u] = "idle"

C14_Witness ==
    \E u, v \in Units :
        /\ life[u] = "live" /\ ~scheduled[u]
        /\ u < v /\ pcComplete[v] = "returned" /\ Delivered(v) = 1

\* The units that hold the work-queue entry e.
HoldersOf(e) == {u \in Units : life[u] \in {"live", "moved"} /\ _work[u] = e}

\* C15, as stated: every live unit holds a work-queue entry, and every entry
\* the host has created and not deleted is held by exactly one unit, also
\* after units were move-constructed and move-assigned.
C15_AsStated ==
    /\ \A u \in Units : life[u] = "live" => _work[u] # nullptr
    /\ \A e \in Units :
           hostWork[e] \notin {"none", "deleted"}
               => Cardinality(HoldersOf(e)) = 1

\* C19, as stated: a successfully constructed unit holds a non-empty receiver
\* reference and a non-empty callback reference, whatever was supplied.
C19_AsStated ==
    \A u \in Units :
        life[u] = "live" => _receiver[u] # nullptr /\ _callback[u] # nullptr

\* The count the caller's calls amount to for the host's reference id: the
\* initial count of the function that created it (Weak 0, Persistent 1,
\* Reset with the count it was given) plus its Ref calls minus its Unref
\* calls.
Meant(id) ==
    (IF hostRef[id].kind \in {"Persistent", "Reset(value, 1)"} THEN 1 ELSE 0)
        + hostRef[id].adjust

\* C16, as stated: while only references created weak (and persistent ones
\* that were released: Reset, destroyed, or Unref'd to zero) exist, the host
\* may collect the value; while a reference created persistent exists
\* unreleased, the value is not collected.
C16_AsStated ==
    /\ \A id \in Holders :
           /\ hostRef[id].state = "live"
           /\ hostRef[id].kind = "Persistent"
           /\ Meant(id) > 0
           => ~collected
    /\ /\ ~collected
       /\ \A id \in Holders :
              hostRef[id].state = "live"
                  => hostRef[id].kind = "Weak" \/ Meant(id) = 0
       => ENABLED HostCollect

\* C16, amended: what decides is the count the reference has been brought to,
\* not the function that created it.  A reference whose count is above zero
\* (created persistent, or created weak and raised with Ref) keeps the value
\* from being collected until it is released (Reset, Unref to zero, or a
\* destruction that deletes it); while every existing reference has count
\* zero (created weak, or lowered to zero with Unref) the host may collect
\* the value.
C16_CountDecides ==
    /\ \A id \in Holders :
           hostRef[id].state = "live" /\ Meant(id) > 0 => ~collected
    /\ /\ ~collected
       /\ \A id \in Holders : hostRef[id].state = "live" => Meant(id) = 0
       => ENABLED HostCollect

C16_Witness ==
    \E a, b \in Holders :
        /\ hostRef[a].kind = "Weak" /\ hostRef[a].state = "live"
        /\ hostRef[b].kind = "Persistent" /\ hostRef[b].state = "deleted"
        /\ collected

\* C17, as stated: a holder destroyed while it held a handle has released the
\* handle to the host exactly when SuppressDestruct had not been called on it.
C17_AsStated ==
    \A h \in Holders :
        holder[h].life = "destroyed" /\ holder[h].last # nullptr
            => (hostRef[holder[h].last].state = "deleted"
                    <=> holder[h]._suppressDestruct # "true")

\* C18: the default handlers call the completion callback at most once per
\* unit, always with the value of the unit's own receiver reference as
\* receiver; the default OnOK passes no argument and the default OnError
\* passes the error value as the only argument; the call has been made once
\* the handler has returned normally.
C18_DefaultHandlers ==
    \A u \in Units :
        /\ Len(callbacks[u]) <= 1
        /\ \A i \in 1..Len(callbacks[u]) :
               /\ callbacks[u][i].recv = u
               /\ nOnOK[u] = 1 => callbacks[u][i].args = <<>>
               /\ nOnError[u] = 1 => callbacks[u][i].args = errorArg[u]
        /\ /\ pcComplete[u] \in {"delete", "returned"}
           /\ status[u] = napi_ok
           /\ caught[u] = "none"
           => Len(callbacks[u]) = 1

C18_Witness ==
    \E u, v \in Units :
        /\ nOnOK[u] = 1 /\ callbacks[u] = <<[recv |-> u, args |-> <<>>]>>
        /\ nOnError[v] = 1 /\ errorArg[v] = << <<1, 1>> >>
        /\ callbacks[v] = <<[recv |-> v, args |-> << <<1, 1>> >>]>>
        /\ pcComplete[u] = "returned" /\ pcComplete[v] = "returned"

\* The dispatch of u as cancelled left no trace: no error value, no callback
\* call, no script exception, nothing caught.
Silent(u) ==
    /\ errorArg[u] = <<>> /\ callbacks[u] = <<>>
    /\ ~jsException[u] /\ caught[u] = "none"

\* C20, as stated: no queued unit is left without an outcome (its entry
\* points are never left by an exception), and a unit whose dispatch has
\* returned is in exactly one of three outcomes: OnOK ran, OnError ran, or
\* it was cancelled and neither ran, silently.
C20_AsStated ==
    \A u \in Units :
        /\ pcExecute[u] # "escaped" /\ pcComplete[u] # "escaped"
        /\ pcComplete[u] = "returned"
               => \/ status[u] = napi_ok /\ nOnOK[u] = 1 /\ nOnError[u] = 0
                  \/ status[u] = napi_ok /\ nOnOK[u] = 0 /\ nOnError[u] = 1
                  \/ status[u] = napi_cancelled /\ Delivered(u) = 0
                         /\ Silent(u)

\* The off-thread phase of unit u is under way: the worker thread is inside
\* OnExecute.
OffThread(u) == pcExecute[u] \in {"Execute", "catch"}

\* C21 as stated: the captured error message of a unit is written at most
\* once, only during the off-thread phase, and is read (by the try block of
\* the completion dispatch) only after the off-thread phase has ended.
C21_AsStated ==
    \A u \in Units :
        /\ nSetError[u] <= 1
        /\ nSetError[u] > 0 => pcExecute[u] # "idle"
        /\ pcComplete[u] = "try" => ~OffThread(u)

\* C21, amended: the captured error message of a unit may be written more
\* than once (by SetError calls of Execute, then by the handler of OnExecute
\* when Execute throws), but every write happens during the off-thread phase,
\* before the completion dispatch of the unit has begun; the message is
\* otherwise changed only by the destruction of the unit; the try block of
\* the completion dispatch, which reads it, runs after the off-thread phase
\* has returned and writes nothing: no write is concurrent with the read.
C21_WritesBeforeRead ==
    [][\A u \in Units :
          /\ (_error'[u] # _error[u] \/ nSetError'[u] # nSetError[u])
                 => \/ /\ OffThread(u)
                       /\ pcComplete[u] = "idle"
                       /\ pcComplete'[u] = "idle"
                    \/ /\ life[u] = "live"
                       /\ life'[u] = "destroyed"
                       /\ nSetError'[u] = nSetError[u]
          /\ (pcComplete[u] = "try" /\ pcComplete'[u] # "try")
                 => /\ pcExecute[u] = "returned"
                    /\ pcExecute'[u] = "returned"
                    /\ _error'[u] = _error[u]
                    /\ nSetError'[u] = nSetError[u]
          /\ OffThread(u) => pcComplete[u] = "idle"]_vars

\* Execute reported a text and then threw another one: _error was written
\* twice, and OnError received the second text.
C21_Witness ==
    \E u \in Units :
        /\ nSetError[u] = 2
        /\ executed[u].how = "std::exception"
        /\ executed[u].set # <<>>
        /\ executed[u].what # executed[u].set
        /\ nOnError[u] = 1
        /\ errorArg[u] = <<executed[u].what>>

\* C22: OnOK and OnError are invoked only by the try step of the completion
\* dispatch, which the host runs on the thread that owns its execution
\* context, after the worker thread has left OnExecute and while no other
\* dispatch is on that thread; at that step the scope opened by OnWorkComplete
\* for this invocation is open, and it is closed (no scope of the dispatch is
\* open) when the unit is destroyed.
C22_HandlersInScope ==
    [][\A u \in Units :
          /\ (nOnOK'[u] # nOnOK[u] \/ nOnError'[u] # nOnError[u])
                 => /\ pcComplete[u] = "try"
                    /\ OpenScopes(scopes[u]) = <<"OnWorkComplete">>
                    /\ pcExecute[u] = "returned"
                    /\ \A v \in Units \ {u} :
                           pcComplete[v] \notin {"try", "catch", "delete"}
          /\ (life[u] # "destroyed" /\ life'[u] = "destroyed")
                 => OpenScopes(scopes[u]) = <<>>]_vars

\* One unit was destroyed after its OnOK ran and another after its OnError
\* ran and raised, each inside the scope of its own dispatch.
C22_Witness ==
    \E u \in Units, v \in Units :
        /\ nOnOK[u] = 1
        /\ life[u] = "destroyed"
        /\ scopes[u] = ScopeClosed(ScopeOpened(<<>>, "OnWorkComplete"),
                                   "OnWorkComplete")
        /\ nOnError[v] = 1
        /\ caught[v] = "Error"
        /\ life[v] = "destroyed"
        /\ scopes[v] # <<>>

\* C23: the scopes of a completion dispatch (the one of OnWorkComplete, the
\* escapable one of FunctionReference::MakeCallback, the one of
\* ThrowAsJavaScriptException) are closed innermost first, and none is open
\* once the dispatch has reached `delete self` or returned, whether the
\* handler returned or raised.
C23_ScopesNested ==
    \A u \in Units :
        /\ OpenScopes(scopes[u]) # <<"mismatch">>
        /\ pcComplete[u] \in {"delete", "returned"}
               => OpenScopes(scopes[u]) = <<>>

\* A dispatch returned after the default OnError raised: the three scopes
\* were opened, and closed in reverse order; another returned on the normal
\* path.
C23_Witness ==
    \E u \in Units, v \in Units :
        /\ pcComplete[u] = "returned"
        /\ caught[u] = "Error"
        /\ scopes[u] =
               <<[op |-> "open", scope |-> "OnWorkComplete"],
                 [op |-> "open", scope |-> "MakeCallback"],
                 [op |-> "close", scope |-> "MakeCallback"],
                 [op |-> "open", scope |-> "ThrowAsJavaScriptException"],
                 [op |-> "close", scope |-> "ThrowAsJavaScriptException"],
                 [op |-> "close", scope |-> "OnWorkComplete"]>>
        /\ pcComplete[v] = "returned"
        /\ caught[v] = "none"
        /\ scopes[v] =
               <<[op |-> "open", scope |-> "OnWorkComplete"],
                 [op |-> "open", scope |-> "MakeCallback"],
                 [op |-> "close", scope |-> "MakeCallback"],
                 [op |-> "close", scope |-> "OnWorkComplete"]>>

\* C24: a step of the worker thread inside OnExecute (the call of Execute,
\* its return, its throw, the handler's SetError) changes only native data of
\* the unit (_error and the record of what Execute did): no reference, scope,
\* script value, exception or callback of the host is created, read or
\* changed, and the host's entry changes only by the host's own bookkeeping
\* when OnExecute is entered and when it returns.
C24_OffThreadNativeOnly ==
    [][\A u \in Units :
          pcExecute'[u] # pcExecute[u]
              => /\ UNCHANGED <<hostRefs, completeVars, refVars>>
                 /\ UNCHANGED <<life, _work, _receiver, _callback>>
                 /\ \A e \in Units :
                        hostWork'[e] # hostWork[e]
                            => /\ e = u
                               /\ <<hostWork[e], hostWork'[e]>> \in
                                      {<<"queued", "running">>,
                                       <<"running", "executed">>}
                 /\ \A v \in Units \ {u} : _error'[v] = _error[v]]_vars

\* OnExecute has returned after capturing the text of an exception thrown by
\* Execute; the host holds what it held before and nothing was delivered.
C24_Witness ==
    \E u \in Units :
        /\ pcExecute[u] = "returned"
        /\ executed[u].how = "std::exception"
        /\ _error[u] = executed[u].what
        /\ _error[u] # <<>>
        /\ pcComplete[u] = "idle"
        /\ hostRefs[u] = {"receiver", "callback"}
        /\ scopes[u] = <<>>
        /\ errorArg[u] = <<>>

\* The host calls Error::New(env) makes on the path that the code `code`
\* selects, as indices of the statuses recorded in errorNew.sts.
CallsMade(code) == IF code = napi_pending_exception THEN {1, 2, 5}
                   ELSE {1, 3, 4, 5}

\* What the translation table gives for the last call of Error::New(env):
\* the pending exception, cleared, for the code napi_pending_exception;
\* otherwise an error with the host's message, or the fallback text when the
\* host supplies none, a TypeError for the four *_expected codes and an Error
\* for every other code.
Translated ==
    /\ errorNew.outcome = "returned"
    /\ IF errorNew.info.error_code = napi_pending_exception
       THEN /\ errorNew.error = errorNew.pending
            /\ errorNew.error.type = "exception"
            /\ errorNew.cleared
       ELSE /\ errorNew.error.message =
                   IF errorNew.info.has_message
                   THEN errorNew.info.error_message
                   ELSE ErrorInNativeCallback
            /\ errorNew.error.type =
                   IF errorNew.info.error_code \in
                          {napi_object_expected, napi_string_expected,
                           napi_boolean_expected, napi_number_expected}
                   THEN "TypeError" ELSE "Error"
            /\ ~errorNew.cleared

Context(e) == e

\* C26 as stated: in every state, the context pointer the host holds for a
\* registered work-queue entry designates a live unit that owns that entry,
\* also after a unit has been move-constructed or move-assigned.
C26_AsStated ==
    \A e \in Units :
        hostWork[e] \notin {"none", "deleted"}
            => /\ life[Context(e)] = "live"
               /\ _work[Context(e)] = e

\* C27 as stated: a construction that failed (the registration of the
\* work-queue entry, or a reference before it) has left the host with no
\* reference created for the unit and no work-queue entry of the unit.
C27_AsStated ==
    \A u \in Units :
        life[u] = "failed" => /\ hostRefs[u] = {}
                              /\ hostWork[u] = "none"

\* C28: after every Reference operation, each handle is held by at most one
\* live holder and has been deleted at most once; a move (construction or
\* assignment) gives the target a handle a holder held before, or none, and
\* leaves every other holder it changed empty; move assignment, Reset() and
\* Reset(value) on a target that held a handle delete that handle, unless
\* the host rejects the deletion, in which case the operation throws and the
\* target keeps it.
C28_OneOwnerOneDelete ==
    [][/\ \A id \in Holders :
              /\ Cardinality({h \in Holders : /\ holder'[h].life = "live"
                                              /\ holder'[h]._ref = id}) <= 1
              /\ hostRef'[id].deletes <= 1
       /\ (call'.op \in {"Reference(&&)", "operator="} /\ ~call'.raised)
              => /\ \A o \in Holders \ {call'.unit} :
                        holder'[o] # holder[o] => holder'[o]._ref = nullptr
                 /\ \/ holder'[call'.unit]._ref = nullptr
                    \/ \E o \in Holders :
                           /\ holder[o].life = "live"
                           /\ holder'[call'.unit]._ref = holder[o]._ref
       /\ (/\ call'.op \in {"operator=", "Reset", "Reset(value)"}
           /\ holder[call'.unit]._ref # nullptr)
              => \/ /\ hostRef'[holder[call'.unit]._ref].state = "deleted"
                    /\ holder'[call'.unit]._ref # holder[call'.unit]._ref
                 \/ /\ call'.raised
                    /\ holder'[call'.unit] = holder[call'.unit]
                    /\ hostRef' = hostRef]_vars

\* A holder that held a handle was move-assigned from another: its old
\* handle was deleted once, it holds the other's handle, and the other is
\* empty.
C28_Witness ==
    /\ call.op = "operator="
    /\ ~call.raised
    /\ \E id \in Holders, old \in Holders :
           /\ id # old
           /\ holder[call.unit]._ref = id
           /\ hostRef[id].state = "live"
           /\ hostRef[old].state = "deleted"
           /\ hostRef[old].deletes = 1
           /\ \A o \in Holders \ {call.unit} :
                  holder[o].life = "live" /\ holder[o]._ref = nullptr

\* C29 as stated: the SuppressDestruct mark of every live holder is
\* determinate (set or not set), and a move carries the mark of the source:
\* after a move construction or move assignment from a marked holder, the
\* target is marked.
C29_AsStated ==
    [][/\ \A h \in Holders :
              holder'[h].life = "live"
                  => holder'[h]._suppressDestruct \in {"true", "false"}
       /\ (call'.op \in {"Reference(&&)", "operator="} /\ ~call'.raised)
              => \A o \in Holders \ {call'.unit} :
                     /\ holder'[o] # holder[o]
                     /\ holder[o]._suppressDestruct = "true"
                     => holder'[call'.unit]._suppressDestruct = "true"]_vars

\* C30 as stated: under the host's scheduling, every unit on which Queue
\* succeeded is eventually destroyed, its work-queue entry deleted and its
\* references released, whatever the outcome of its handlers.
C30_AsStated ==
    \A u \in Units :
        scheduled[u] ~> (Destroyed(u) /\ hostRefs[u] = {})

====
